---- MODULE Spec2Model ----
(***************************************************************************)
(* Contact-summarisation job pipeline of src/main.py: the upload handler,  *)
(* the polling handlers and the background task process_contacts, with the *)
(* two process-wide registries `jobs` and `results`.                       *)
(*                                                                         *)
(* Modelling notes.                                                        *)
(*  - The handlers are coroutines on one event loop: code between two      *)
(*    awaits runs atomically.  process_contacts awaits only in the sleep   *)
(*    after a successful contact; one contact is one step of the model,    *)
(*    which lets a poll see every state a real poll can see (and the       *)
(*    states right after a failed contact as well).                        *)
(*  - A table is what pandas.read_csv returns for a file whose rows have   *)
(*    as many fields as the header: the row index is 0, 1, 2, ...          *)
(*  - Cells are tokens: "#7" is the number 7 and "#nan" a missing value;   *)
(*    Str gives what Python's str() gives for them.                        *)
(*  - uuid4 hands out an identifier it has not handed out before; which    *)
(*    one is immaterial, so the model picks one deterministically.  An     *)
(*    upload is possible while Uuids has an identifier left.               *)
(*  - datetime.now() reads a clock that advances at every reading.         *)
(***************************************************************************)
EXTENDS Integers, Sequences, FiniteSets, TLC

VARIABLES
    jobs,       \* the registry `jobs`: job id -> job record (a dict)
    results,    \* the registry `results`: job id -> list of ContactResult
    files,      \* uploads/<job id>.csv: job id -> content written by upload_csv
    tasks,      \* the background tasks: job id -> position and locals
    uuids,      \* the identifiers uuid4 has handed out
    clock,      \* what datetime.now() reads next
    response,   \* the last HTTP response sent
    call        \* the call of AIProcessor.summarize_conversations under study

vars == <<jobs, results, files, tasks, uuids, clock, response, call>>

\* bound of the model: the longest table uploaded
MaxRows == 2

\* the values uuid.uuid4() hands out; one is used per stored upload
Uuids == {"u1", "u2"}

None == "<None>"

(***************************************************************************)
(* Python helpers.                                                         *)
(***************************************************************************)
\* d[k] = v on a dict
SetItem(d, k, v) == [x \in (DOMAIN d) \cup {k} |-> IF x = k THEN v ELSE d[x]]

\* str(value) of a cell
Str(v) == CASE v = "#7" -> "7"
            [] v = "#nan" -> "nan"
            [] OTHER -> v

\* column.lower().strip()
LowerStrip(c) == CASE c = "Name " -> "name"
                   [] c = " EMAIL" -> "email"
                   [] c = "Phone" -> "phone"
                   [] OTHER -> c

\* position of a column label in a list of labels, 0 when absent
RECURSIVE IndexOf(_, _, _)
IndexOf(cols, c, i) ==
    IF i > Len(cols) THEN 0
    ELSE IF cols[i] = c THEN i ELSE IndexOf(cols, c, i + 1)

(***************************************************************************)
(* Uploaded files.                                                         *)
(***************************************************************************)
Unparsable == [header |-> <<>>, rows |-> <<>>, parses |-> FALSE]

RowCells == { <<"ann", "ann@x.com">>, <<"#7", "#nan">> }

RECURSIVE SeqsUpTo(_, _)
SeqsUpTo(S, n) ==
    IF n = 0 THEN { <<>> }
    ELSE LET shorter == SeqsUpTo(S, n - 1)
         IN  shorter \cup { Append(s, x) : s \in { t \in shorter : Len(t) = n - 1 }, x \in S }

\* files read_csv accepts and upload_csv accepts
ValidTables ==
    { [header |-> <<"name", "email">>, rows |-> r, parses |-> TRUE] :
        r \in SeqsUpTo(RowCells, MaxRows) }
    \cup { [header |-> <<"Name ", " EMAIL">>, rows |-> r, parses |-> TRUE] :
        r \in SeqsUpTo(RowCells, 1) }

\* files read_csv accepts and upload_csv rejects: a required column is missing
InvalidTables ==
    { [header |-> h, rows |-> <<>>, parses |-> TRUE] :
        h \in { <<"name", "Phone">>, <<"Phone", "email">>, <<"Phone">> } }

Tables == ValidTables \cup InvalidTables

Contents == Tables \cup {Unparsable}

FileNames == {"contacts.csv", "contacts.txt"}

EndsWithCsv(filename) == filename = "contacts.csv"

(***************************************************************************)
(* State after module import: both registries empty.                       *)
(***************************************************************************)
\* no call of the summarizer is under study
NoCall == [pc |-> "none"]

NoResponse == [op |-> "none", code |-> 0, job_id |-> None, detail |-> None,
               missing |-> {}, total_contacts |-> 0, body |-> <<>>, results |-> <<>>]

Init ==
    /\ jobs = <<>>
    /\ results = <<>>
    /\ files = <<>>
    /\ tasks = <<>>
    /\ uuids = {}
    /\ clock = 0
    /\ response = NoResponse
    /\ call = NoCall

(***************************************************************************)
(* pandas, as far as the handlers use it.                                  *)
(***************************************************************************)
\* pd.read_csv(file_path) raises on a file that is no table
read_csv_raises(file) == ~file.parses

\* pd.read_csv(file_path)
read_csv(file) == [columns |-> file.header, rows |-> file.rows]

\* df.columns = df.columns.str.lower().str.strip()
NormaliseColumns(df) ==
    [df EXCEPT !.columns = [i \in DOMAIN df.columns |-> LowerStrip(df.columns[i])]]

\* row.get(col, default)
RowGet(df, row, col, default) ==
    LET i == IndexOf(df.columns, col, 1)
    IN  IF i = 0 THEN default ELSE row[i]

required_columns == <<"name", "email">>

\* faulty variant of missing_columns: stops at the first missing column
missing_columns_first(df) ==
    LET absent(col) == \A i \in DOMAIN df.columns : df.columns[i] # col
        all == SelectSeq(<<"name", "email">>, absent)
    IN  IF all = <<>> THEN <<>> ELSE <<all[1]>>

\* [col for col in required_columns if col not in df.columns]
missing_columns(df) ==
    LET absent(col) == IndexOf(df.columns, col, 1) = 0
    IN  SelectSeq(required_columns, absent)

(***************************************************************************)
(* POST /upload                                                            *)
(***************************************************************************)
\* faulty variant of NewJob: total counts the columns, not the rows
NewJobCountingColumns(df, now) ==
    [status |-> "processing", progress |-> 0, total |-> Len(df.columns), started_at |-> now]

\* str(uuid.uuid4())
uuid4 == CHOOSE u \in Uuids : u \notin uuids

\* the job record upload_csv registers
NewJob(df, now) ==
    [status |-> "processing", progress |-> 0, total |-> Len(df.rows), started_at |-> now]

\* background_tasks.add_task(process_contacts, job_id, file_path)
ScheduledTask ==
    [pc |-> "scheduled", df |-> [columns |-> <<>>, rows |-> <<>>], pos |-> 0,
     contact_results |-> <<>>, raised |-> <<>>, failure |-> None]

upload_csv(filename, content) ==
    IF ~EndsWithCsv(filename)
    THEN /\ response' = [NoResponse EXCEPT !.op = "upload", !.code = 400,
                                           !.detail = "please upload a csv file"]
         /\ UNCHANGED <<jobs, results, files, tasks, uuids, clock, call>>
    ELSE LET job_id == uuid4
             df == NormaliseColumns(read_csv(content))
             missing == missing_columns(df)
         IN  /\ uuids' = uuids \cup {job_id}
             /\ files' = SetItem(files, job_id, content)
             /\ UNCHANGED <<results, call>>
             /\ IF read_csv_raises(content)
                THEN /\ response' = [NoResponse EXCEPT !.op = "upload", !.code = 400,
                                        !.detail = "error processing csv: no columns to parse from file"]
                     /\ UNCHANGED <<jobs, tasks, clock>>
                ELSE IF missing # <<>>
                THEN \* the HTTPException raised inside the try is caught by
                     \* `except Exception` and wrapped into another 400
                     /\ response' = [NoResponse EXCEPT !.op = "upload", !.code = 400,
                                        !.detail = "error processing csv: 400: csv must contain columns: name, email. missing:",
                                        !.missing = { missing[i] : i \in DOMAIN missing }]
                     /\ UNCHANGED <<jobs, tasks, clock>>
                ELSE /\ jobs' = SetItem(jobs, job_id, NewJob(df, clock))
                     /\ clock' = clock + 1
                     /\ tasks' = SetItem(tasks, job_id, ScheduledTask)
                     /\ response' = [NoResponse EXCEPT !.op = "upload", !.code = 200,
                                        !.job_id = job_id, !.detail = "processing started",
                                        !.total_contacts = Len(df.rows)]

(***************************************************************************)
(* GET /status/{job_id} and GET /results/{job_id}                          *)
(***************************************************************************)
get_status(job_id) ==
    /\ IF job_id \notin DOMAIN jobs
       THEN response' = [NoResponse EXCEPT !.op = "status", !.code = 404,
                                           !.job_id = job_id, !.detail = "job not found"]
       ELSE response' = [NoResponse EXCEPT !.op = "status", !.code = 200,
                                           !.job_id = job_id, !.body = jobs[job_id]]
    /\ UNCHANGED <<jobs, results, files, tasks, uuids, clock, call>>

get_results(job_id) ==
    /\ IF job_id \notin DOMAIN results
       THEN response' = [NoResponse EXCEPT !.op = "results", !.code = 404,
                                           !.job_id = job_id, !.detail = "results not found"]
       ELSE response' = [NoResponse EXCEPT !.op = "results", !.code = 200,
                                           !.job_id = job_id, !.results = results[job_id]]
    /\ UNCHANGED <<jobs, results, files, tasks, uuids, clock, call>>

(***************************************************************************)
(* process_contacts, the background task of one job.                       *)
(* A task record holds the coroutine's position and locals; `raised` is a  *)
(* history of what each processed contact raised (None: nothing) and       *)
(* `failure` of what the read of the table raised.                         *)
(***************************************************************************)
\* what generate_dummy_email_data + summarize_conversations hand back
SummaryData ==
    { [last_contact_date |-> "2024-05-01",
       summary |-> "ongoing communication. project updates and collaboration.",
       services_used |-> "website, development",
       next_action |-> "follow up on current project status"] }

\* str(e) of an exception raised while one contact is processed
ContactErrors == { "'list' object has no attribute 'get'" }

\* str(e) of an exception raised by the read of the table at line 253
ReadErrors == { "[Errno 2] No such file or directory", "No columns to parse from file" }

\* f"error processing: {str(e)}"
ErrorSummary(e) ==
    CASE e = "'list' object has no attribute 'get'"
           -> "error processing: 'list' object has no attribute 'get'"
      [] OTHER -> "error processing: "

\* the index label df.iterrows() yields for the row at position pos (1-based)
iterrows_index(pos) == pos - 1

\* faulty variant of progress_update: an index taken as 1-based
progress_update_one_based(index) == index + 2

\* line 282: jobs[job_id]["progress"] = index + 1
progress_update(index) == index + 1

\* faulty variant of append: contact_results.insert(0, result)
insert_first(contact_results, result) == <<result>> \o contact_results

\* lines 279 and 291: contact_results.append(result)
append(contact_results, result) == Append(contact_results, result)

\* the record built at lines 270-277
SuccessResult(df, row, summary_data) ==
    [name |-> Str(RowGet(df, row, "name", "unknown")),
     email |-> Str(RowGet(df, row, "email", "unknown@email.com")),
     last_contact_date |-> summary_data.last_contact_date,
     summary |-> summary_data.summary,
     services_used |-> summary_data.services_used,
     next_action |-> summary_data.next_action]

\* faulty variant of ErrorResult: the exception's message left out of the summary
ErrorResultWithoutMessage(df, row, e) ==
    [name |-> RowGet(df, row, "name", "unknown"),
     email |-> RowGet(df, row, "email", "unknown"),
     last_contact_date |-> None,
     summary |-> "error processing: ",
     services_used |-> None,
     next_action |-> "manual review required"]

\* the record built at lines 291-298
ErrorResult(df, row, e) ==
    [name |-> RowGet(df, row, "name", "unknown"),
     email |-> RowGet(df, row, "email", "unknown"),
     last_contact_date |-> None,
     summary |-> ErrorSummary(e),
     services_used |-> None,
     next_action |-> "manual review required"]

\* faulty variant of JobError: the message is not stored
JobErrorWithoutMessage(job, e) == SetItem(job, "status", "error")

\* faulty variant of JobError: the status is left as it was
JobErrorWithoutStatus(job, e) == SetItem(job, "error", e)

\* lines 307-308: the job record after a job-level failure
JobError(job, e) == SetItem(SetItem(job, "status", "error"), "error", e)

\* faulty variant of StoreResults: the list is not stored
StoreNothing(registry, job_id, contact_results) == registry

\* faulty variant of StoreResults: the registry is replaced, not updated
StoreResultsAlone(registry, job_id, contact_results) == job_id :> contact_results

\* line 301: results[job_id] = contact_results
StoreResults(registry, job_id, contact_results) == SetItem(registry, job_id, contact_results)

\* faulty variant of CompleteStatus: another spelling of the status
CompletedStatus == "completed"

\* line 302: the status of a job whose loop is over
CompleteStatus == "complete"

\* faulty variant of JobComplete: the time of completion is not recorded
JobCompleteUndated(job, now) == SetItem(job, "status", CompleteStatus)

\* lines 302-303: the job record after the loop
JobComplete(job, now) ==
    SetItem(SetItem(job, "status", CompleteStatus), "completed_at", now)

ReturnedTask(t) ==
    [ScheduledTask EXCEPT !.pc = "returned", !.raised = t.raised, !.failure = t.failure]

\* lines 252-256: read the table; a failure here is caught at line 305
process_contacts_read(job_id, e) ==
    /\ job_id \in DOMAIN tasks
    /\ tasks[job_id].pc = "scheduled"
    /\ IF e = None
       THEN /\ tasks' = [tasks EXCEPT ![job_id] =
                           [@ EXCEPT !.pc = "loop",
                                     !.df = NormaliseColumns(read_csv(files[job_id])),
                                     !.pos = 1]]
            /\ UNCHANGED jobs
       ELSE /\ jobs' = [jobs EXCEPT ![job_id] = JobError(@, e)]
            /\ tasks' = [tasks EXCEPT ![job_id] = ReturnedTask([@ EXCEPT !.failure = e])]
    /\ UNCHANGED <<results, files, uuids, clock, response, call>>

\* lines 258-298: one iteration of the loop over df.iterrows()
process_contacts_row(job_id, summary_data, e) ==
    /\ job_id \in DOMAIN tasks
    /\ tasks[job_id].pc = "loop"
    /\ tasks[job_id].pos <= Len(tasks[job_id].df.rows)
    /\ LET t == tasks[job_id]
           index == iterrows_index(t.pos)
           row == t.df.rows[t.pos]
       IN  IF e = None
           THEN /\ tasks' = [tasks EXCEPT ![job_id] =
                               [t EXCEPT !.pos = t.pos + 1,
                                         !.raised = Append(@, None),
                                         !.contact_results =
                                             append(@, SuccessResult(t.df, row, summary_data))]]
                /\ jobs' = [jobs EXCEPT ![job_id] =
                               SetItem(@, "progress", progress_update(index))]
           ELSE /\ tasks' = [tasks EXCEPT ![job_id] =
                               [t EXCEPT !.pos = t.pos + 1,
                                         !.raised = Append(@, e),
                                         !.contact_results =
                                             append(@, ErrorResult(t.df, row, e))]]
                /\ UNCHANGED jobs
    /\ UNCHANGED <<results, files, uuids, clock, response, call>>

\* lines 300-303: the loop is over
process_contacts_finish(job_id) ==
    /\ job_id \in DOMAIN tasks
    /\ tasks[job_id].pc = "loop"
    /\ tasks[job_id].pos > Len(tasks[job_id].df.rows)
    /\ results' = StoreResults(results, job_id, tasks[job_id].contact_results)
    /\ jobs' = [jobs EXCEPT ![job_id] = JobComplete(@, clock)]
    /\ clock' = clock + 1
    /\ tasks' = [tasks EXCEPT ![job_id] = ReturnedTask(@)]
    /\ UNCHANGED <<files, uuids, response, call>>

(***************************************************************************)
(* Next-state relation                                                     *)
(***************************************************************************)
Upload ==
    /\ uuids # Uuids
    /\ \E filename \in FileNames, content \in Contents : upload_csv(filename, content)

Status == \E job_id \in Uuids : get_status(job_id)

Results == \E job_id \in Uuids : get_results(job_id)

ReadTable ==
    \E job_id \in DOMAIN tasks, e \in ReadErrors \cup {None} : process_contacts_read(job_id, e)

Contact ==
    \E job_id \in DOMAIN tasks, summary_data \in SummaryData, e \in ContactErrors \cup {None} :
        process_contacts_row(job_id, summary_data, e)

Finish == \E job_id \in DOMAIN tasks : process_contacts_finish(job_id)

Next == Upload \/ Status \/ Results \/ ReadTable \/ Contact \/ Finish

Spec == Init /\ [][Next]_vars

(***************************************************************************)
(* Vocabulary of the properties                                            *)
(***************************************************************************)
\* the (name, email) pairs of the table a job was submitted with, in order
SubmittedContacts(job_id) ==
    LET df == NormaliseColumns(read_csv(files[job_id]))
    IN  [i \in DOMAIN df.rows |->
            [name |-> RowGet(df, df.rows[i], "name", "unknown"),
             email |-> RowGet(df, df.rows[i], "email", "unknown")]]

\* the required columns a stored file lacks
MissingIn(file) ==
    LET df == NormaliseColumns(read_csv(file))
    IN  { c \in {"name", "email"} : \A i \in DOMAIN df.columns : df.columns[i] # c }

\* the step is a POST /upload that was answered
UploadAnswered == response'.op = "upload" /\ (uuids' # uuids \/ response' # response)

\* the file a POST /upload step has stored
Uploaded == files'[CHOOSE u \in uuids' : u \notin uuids]

\* the step is a GET /status answered with a job record
StatusAnswered == response'.op = "status" /\ response'.code = 200 /\ response' # response

\* the step is a GET /results that was answered
ResultsAnswered == response'.op = "results" /\ response' # response

\* the results a task has gathered for its job so far
Gathered(job_id) ==
    IF tasks[job_id].pc = "returned" /\ job_id \in DOMAIN results
    THEN results[job_id]
    ELSE tasks[job_id].contact_results

IsErrorResult(r, e) ==
    /\ r.last_contact_date = None
    /\ r.services_used = None
    /\ r.summary = ErrorSummary(e)
    /\ r.next_action = "manual review required"

\* progress lies in 0..total, in the registry and in the last answer of GET /status
ProgressWithinTotal ==
    /\ \A j \in DOMAIN jobs : jobs[j].progress >= 0 /\ jobs[j].progress <= jobs[j].total
    /\ response.op = "status" /\ response.code = 200
          => response.body.progress >= 0 /\ response.body.progress <= response.body.total

\* no step lowers a job's progress, and a poll never shows less than the poll before it
PollsNeverDecrease ==
    /\ \A j \in DOMAIN jobs : jobs'[j].progress >= jobs[j].progress
    /\ StatusAnswered /\ response.op = "status" /\ response.code = 200
                      /\ response.job_id = response'.job_id
          => response'.body.progress >= response.body.progress

CompleteMeansProgressIsTotal ==
    \A j \in DOMAIN jobs :
        jobs[j].status = "complete" =>
            /\ jobs[j].total = Len(SubmittedContacts(j))
            /\ jobs[j].progress = jobs[j].total

(***************************************************************************)
(* C4: after the k-th contact in input order has finished, with or without *)
(* a failure, the job's progress equals k.                                 *)
(***************************************************************************)
ProgressCountsAttempted ==
    \A j \in DOMAIN tasks :
        tasks[j].pc = "loop" \/ jobs[j].status = "complete"
            => jobs[j].progress = Len(tasks[j].raised)

\* what one step may do to the statuses
StatusStep ==
    /\ \A j \in DOMAIN jobs' : j \notin DOMAIN jobs => jobs'[j].status = "processing"
    /\ \A j \in DOMAIN jobs :
          /\ j \in DOMAIN jobs'
          /\ jobs[j].status # "processing" => jobs'[j].status = jobs[j].status
          /\ jobs'[j].status # jobs[j].status => jobs'[j].status \in {"complete", "error"}

(***************************************************************************)
(* C5: a job starts as processing; its status changes at most once, to     *)
(* complete or to error, and never changes after that.                     *)
(***************************************************************************)
StatusChangesOnce == [][StatusStep]_vars

\* a poll saw the job processing and the job is complete now, while another
\* job has ended in error
StatusLeftProcessing ==
    /\ response.op = "status" /\ response.code = 200
    /\ response.body.status = "processing"
    /\ jobs[response.job_id].status = "complete"
    /\ \E j \in DOMAIN jobs : jobs[j].status = "error"

(***************************************************************************)
(* C6: a failure while one contact is processed never moves the job to     *)
(* error: the contact gets the error-flavoured result, the loop goes on    *)
(* with the next contact and the job ends in complete.                     *)
(***************************************************************************)
ContactFailureIsLocal ==
    \A j \in DOMAIN tasks :
        \A i \in DOMAIN tasks[j].raised :
            tasks[j].raised[i] # None =>
                /\ jobs[j].status # "error"
                /\ tasks[j].pc = "loop" => tasks[j].pos = Len(tasks[j].raised) + 1
                /\ tasks[j].pc = "returned" => jobs[j].status = "complete"
                /\ Len(Gathered(j)) = Len(tasks[j].raised)
                /\ IsErrorResult(Gathered(j)[i], tasks[j].raised[i])

\* a complete job whose first contact failed and whose second was summarised
FailureThenSuccessComplete ==
    \E j \in DOMAIN tasks :
        /\ tasks[j].pc = "returned"
        /\ jobs[j].status = "complete"
        /\ Len(tasks[j].raised) = 2
        /\ tasks[j].raised[1] # None
        /\ tasks[j].raised[2] = None
        /\ results[j][2].next_action = "follow up on current project status"

(***************************************************************************)
(* C7: on a job-level failure the job's status becomes error with the      *)
(* exception message in its error field, and no result list is stored for  *)
(* the job.                                                                *)
(***************************************************************************)
JobFailureStoresNoResults ==
    \A j \in DOMAIN tasks :
        /\ tasks[j].failure # None =>
              /\ jobs[j].status = "error"
              /\ "error" \in DOMAIN jobs[j]
              /\ jobs[j].error = tasks[j].failure
              /\ j \notin DOMAIN results
        /\ jobs[j].status = "error" => tasks[j].failure # None /\ j \notin DOMAIN results

\* a failed job of two contacts whose results a client asked for in vain
FailedJobAskedForResults ==
    /\ response.op = "results" /\ response.code = 404
    /\ response.job_id \in DOMAIN jobs
    /\ jobs[response.job_id].status = "error"
    /\ jobs[response.job_id].total = 2

\* a job id has results exactly when its job is complete
ResultsIffComplete ==
    \A j \in Uuids :
        j \in DOMAIN results <=> (j \in DOMAIN jobs /\ jobs[j].status = "complete")

\* what GET /results answers
ResultsAnswer ==
    ResultsAnswered =>
        LET j == response'.job_id
        IN  IF j \in DOMAIN jobs /\ jobs[j].status = "complete"
            THEN /\ response'.code = 200
                 /\ response'.results = results[j]
                 /\ Len(response'.results) = jobs[j].total
            ELSE response'.code = 404

(***************************************************************************)
(* C8: the result registry has an entry for a job id exactly when that     *)
(* job's status is complete; GET /results answers 404 for an unknown job,  *)
(* a job still processing and a job in error, and the full result list for *)
(* a complete job.                                                         *)
(***************************************************************************)
ResultsOnlyWhenComplete == []ResultsIffComplete /\ [][ResultsAnswer]_vars

\* the full list of a complete job of two contacts was handed out
FullResultsHandedOut ==
    /\ response.op = "results" /\ response.code = 200
    /\ Len(response.results) = 2
    /\ \E j \in DOMAIN jobs : jobs[j].status = "processing"

\* what a rejected POST /upload does
RejectedUploadStep ==
    LET badName == uuids' = uuids
        missing == IF uuids' # uuids /\ Uploaded.parses THEN MissingIn(Uploaded) ELSE {}
    IN  UploadAnswered /\ (badName \/ missing # {}) =>
            /\ response'.code = 400
            /\ response'.job_id = None
            /\ response'.detail # None
            /\ response'.missing = missing
            /\ jobs' = jobs
            /\ results' = results
            /\ tasks' = tasks

(***************************************************************************)
(* C9: an upload rejected by input validation (a file name not ending in   *)
(* .csv, a table without the name or the email column) is answered 400     *)
(* with a message naming the missing columns, returns no job id, schedules *)
(* no task and leaves both registries as they were.                        *)
(***************************************************************************)
RejectedUploadChangesNothing == [][RejectedUploadStep]_vars

\* an upload without the email column was rejected after an earlier job had
\* stored its results
RejectedWhileJobsExist ==
    /\ response.op = "upload" /\ response.code = 400
    /\ response.missing = {"email"}
    /\ DOMAIN jobs # {}
    /\ DOMAIN results # {}
    /\ uuids # DOMAIN jobs

\* what an accepted POST /upload has done when it returns
AcceptedUploadStep ==
    UploadAnswered /\ response'.code = 200 =>
        LET j == response'.job_id
            n == Len(files'[j].rows)
        IN  /\ j \in uuids' /\ j \notin uuids /\ j \notin DOMAIN jobs
            /\ j \in DOMAIN jobs'
            /\ jobs'[j].status = "processing"
            /\ jobs'[j].progress = 0
            /\ jobs'[j].total = n
            /\ response'.total_contacts = n
            /\ j \notin DOMAIN results'
            /\ tasks'[j].pc = "scheduled"
            /\ tasks'[j].contact_results = <<>>
            /\ tasks'[j].raised = <<>>

(***************************************************************************)
(* C10: when a valid upload of N contacts returns its job id the job is    *)
(* registered with status processing, progress 0 and total N, no contact   *)
(* has been processed and no results are stored.                           *)
(***************************************************************************)
UploadReturnsBeforeWork == [][AcceptedUploadStep]_vars

\* the answer to an upload of two contacts is out and the task has not started
UploadAnsweredTaskPending ==
    /\ response.op = "upload" /\ response.code = 200
    /\ response.total_contacts = 2
    /\ tasks[response.job_id].pc = "scheduled"
    /\ jobs[response.job_id].progress = 0

(***************************************************************************)
(* Scheduling.  The event loop runs every task that add_task has scheduled *)
(* and resumes every coroutine whose sleep is over: a step of a job's task *)
(* that stays possible is eventually taken.                                *)
(***************************************************************************)
TaskStep(job_id) ==
    \/ \E e \in ReadErrors \cup {None} : process_contacts_read(job_id, e)
    \/ \E summary_data \in SummaryData, e \in ContactErrors \cup {None} :
          process_contacts_row(job_id, summary_data, e)
    \/ process_contacts_finish(job_id)

FairSpec == Spec /\ \A job_id \in Uuids : WF_vars(TaskStep(job_id))

(***************************************************************************)
(* C11: when the conversation source and the summarizer return or fail in  *)
(* finitely many steps for every contact, every submitted job eventually   *)
(* leaves processing and is complete or in error.                          *)
(***************************************************************************)
EveryJobEnds ==
    \A j \in Uuids :
        (j \in DOMAIN jobs) ~> (j \in DOMAIN jobs /\ jobs[j].status \in {"complete", "error"})

\* both ends have been reached: a job of two contacts whose contacts both
\* failed is complete and another job is in error
JobsEndedBothWays ==
    /\ \E j \in DOMAIN jobs :
          /\ jobs[j].status = "complete" /\ jobs[j].total = 2
          /\ \A i \in DOMAIN tasks[j].raised : tasks[j].raised[i] # None
    /\ \E j \in DOMAIN jobs : jobs[j].status = "error"

\* what a job's task leaves behind when it runs with no other job around,
\* given the table it was submitted with and what its contacts raised
AloneProgress(raised) ==
    LET done == { i \in DOMAIN raised : raised[i] = None }
    IN  IF done = {} THEN 0 ELSE CHOOSE i \in done : \A k \in done : k <= i

AloneResultOk(job_id, i, r) ==
    LET df == NormaliseColumns(read_csv(files[job_id]))
        e == tasks[job_id].raised[i]
    IN  IF e = None
        THEN r \in { SuccessResult(df, df.rows[i], sd) : sd \in SummaryData }
        ELSE r = ErrorResult(df, df.rows[i], e)

\* a returned task has left what it leaves when it runs alone
FinalAsAlone ==
    \A j \in DOMAIN tasks :
        tasks[j].pc = "returned" =>
            IF tasks[j].failure # None
            THEN /\ jobs[j].status = "error"
                 /\ jobs[j].progress = 0
                 /\ j \notin DOMAIN results
            ELSE /\ jobs[j].status = "complete"
                 /\ Len(tasks[j].raised) = Len(files[j].rows)
                 /\ jobs[j].progress = AloneProgress(tasks[j].raised)
                 /\ j \in DOMAIN results
                 /\ Len(results[j]) = Len(files[j].rows)
                 /\ \A i \in DOMAIN results[j] : AloneResultOk(j, i, results[j][i])

\* a step of one job's task leaves every other job's record, results and
\* task as they are
StepTouchesOneJob ==
    \A a \in DOMAIN tasks :
        tasks'[a] # tasks[a] =>
            \A b \in Uuids \ {a} :
                /\ b \in DOMAIN jobs => b \in DOMAIN jobs' /\ jobs'[b] = jobs[b]
                /\ b \notin DOMAIN jobs => b \notin DOMAIN jobs'
                /\ b \in DOMAIN results => b \in DOMAIN results' /\ results'[b] = results[b]
                /\ b \notin DOMAIN results => b \notin DOMAIN results'
                /\ b \in DOMAIN tasks => tasks'[b] = tasks[b]

(***************************************************************************)
(* C12: under any interleaving of the steps of concurrently running jobs   *)
(* and of polls, a step of job A changes only job A's record and result    *)
(* list, and every job's final status, progress and result list are those  *)
(* it has when it runs alone.                                              *)
(***************************************************************************)
JobsDoNotInterfere == []FinalAsAlone /\ [][StepTouchesOneJob]_vars

\* two jobs of two contacts each are both half way through their tables
TwoJobsHalfWay ==
    /\ DOMAIN tasks = Uuids
    /\ \A j \in Uuids : /\ tasks[j].pc = "loop"
                        /\ tasks[j].pos = 2
                        /\ Len(tasks[j].df.rows) = 2

(***************************************************************************)
(* The summarizer of src/ai_processor.py.                                  *)
(*                                                                         *)
(* Modelling notes.                                                        *)
(*  - A Python str is the tuple of its characters, so that the searches,   *)
(*    cuts and splits of the code are computed character by character.     *)
(*  - A timestamp counts ticks since the epoch, TicksPerDay ticks to a     *)
(*    day; the timestamps of the model lie in the year 1970 and the local  *)
(*    time zone is UTC.                                                    *)
(*  - A Python value that may be something else than a dict carries its    *)
(*    type: [type |-> "dict", value |-> the items], [type |-> "list", ..]. *)
(***************************************************************************)

\* bound of the model: the number of distinct timestamps within one day
TicksPerDay == 2

\* the value None inside a dict of strings
PyNone == <<None>>

(***************************************************************************)
(* str, as far as the summarizer uses it                                   *)
(***************************************************************************)
ascii_uppercase == <<"A", "B", "C", "D", "E", "F", "G", "H", "I", "J", "K", "L", "M", "N", "O",
    "P", "Q", "R", "S", "T", "U", "V", "W", "X", "Y", "Z">>
ascii_lowercase == <<"a", "b", "c", "d", "e", "f", "g", "h", "i", "j", "k", "l", "m", "n", "o",
    "p", "q", "r", "s", "t", "u", "v", "w", "x", "y", "z">>
digits == <<"0", "1", "2", "3", "4", "5", "6", "7", "8", "9">>

to_lower == [c \in { ascii_uppercase[i] : i \in DOMAIN ascii_uppercase } |->
                ascii_lowercase[CHOOSE i \in DOMAIN ascii_uppercase : ascii_uppercase[i] = c]]

LowerChar(c) == IF c \in DOMAIN to_lower THEN to_lower[c] ELSE c

\* s.lower()
lower(s) == [i \in DOMAIN s |-> LowerChar(s[i])]

\* sub in s
In(sub, s) == \E i \in 1..(Len(s) - Len(sub) + 1) : SubSeq(s, i, i + Len(sub) - 1) = sub

\* s.startswith(prefix)
startswith(s, prefix) == Len(prefix) <= Len(s) /\ SubSeq(s, 1, Len(prefix)) = prefix

\* s[:n]
Head_(s, n) == SubSeq(s, 1, IF Len(s) < n THEN Len(s) ELSE n)

\* sep.join(parts)
RECURSIVE join(_, _)
join(sep, parts) ==
    IF parts = <<>> THEN <<>>
    ELSE IF Len(parts) = 1 THEN parts[1]
    ELSE parts[1] \o sep \o join(sep, Tail(parts))

\* s.split(sep) for a separator of one character
RECURSIVE split(_, _)
split(s, sep) ==
    IF \A i \in DOMAIN s : s[i] # sep THEN <<s>>
    ELSE LET i == CHOOSE i \in DOMAIN s : s[i] = sep /\ \A j \in 1..(i - 1) : s[j] # sep
         IN  <<SubSeq(s, 1, i - 1)>> \o split(SubSeq(s, i + 1, Len(s)), sep)

(***************************************************************************)
(* datetime.fromtimestamp(ts).strftime(format) for the two formats used    *)
(***************************************************************************)
Day(ts) == ts \div TicksPerDay

MonthLengths == <<31, 28, 31, 30, 31, 30, 31, 31, 30, 31, 30, 31>>

RECURSIVE MonthAndDay(_, _)
MonthAndDay(d, month) ==
    IF d < MonthLengths[month] THEN <<month, d + 1>>
    ELSE MonthAndDay(d - MonthLengths[month], month + 1)

TwoDigits(n) == <<digits[(n \div 10) + 1], digits[(n % 10) + 1]>>

strftime(ts, format) ==
    LET md == MonthAndDay(Day(ts), 1)
        year == IF format = "%Y-%m-%d" THEN <<"1", "9", "7", "0">> ELSE <<"7", "0">>
    IN  year \o <<"-">> \o TwoDigits(md[1]) \o <<"-">> \o TwoDigits(md[2])

(***************************************************************************)
(* Messages and contacts the summarizer is called with                     *)
(***************************************************************************)
\* bounds of the model: the longest conversation summarised by the
\* rule-based path, and by the path that asks the backend
MaxMessages == 4
MaxAsked == 2

\* bound of the model: the longest conversation summarised twice
MaxRepeated == 1

me == <<"m", "e", "@", "c", "o", "m", "p", "a", "n", "y", ".", "c", "o", "m">>
contact_email == <<"a", "n", "n", "@", "x", ".", "c", "o", "m">>

ContactNames == { <<"a", "n", "n">>, <<"B", "o", "b", " ", "[", "A", "c", "m", "e", "]">> }

\* what a message says: subject, body and who wrote it
Letters ==
    { [subject |-> <<"P", "a", "y", "m", "e", "n", "t", " ", "P", "r", "o", "c", "e", "s", "s",
        "e", "d">>, body |-> <<"d", "a", "t", "a", "b", "a", "s", "e", " ", "o", "p", "t", "i",
        "m", "i", "z", "a", "t", "i", "o", "n">>, from |-> me],
      [subject |-> <<"C", "o", "n", "s", "u", "l", "t", "i", "n", "g", " ", "S", "e", "r", "v",
          "i", "c", "e", "s", " ", "I", "n", "q", "u", "i", "r", "y">>, body |-> <<"A", "I", " ",
          "a", "u", "t", "o", "m", "a", "t", "i", "o", "n">>, from |-> contact_email],
      [subject |-> <<"h", "e", "l", "l", "o">>, body |-> <<"s", "e", "e", " ", "y", "o", "u", " ",
          "f", "r", "i", "d", "a", "y">>, from |-> contact_email],
      [subject |-> <<"r", "e", ":", " ", "l", "u", "n", "c", "h">>, body |-> <<"e", "m", "a", "i",
          "l", " ", "m", "e">>, from |-> me] }

Message(letter, timestamp) ==
    [subject |-> letter.subject, from |-> letter.from, body |-> letter.body,
     timestamp |-> timestamp]

\* the timestamp of the newest message of a conversation
NewestStamps(n) == { n, n + TicksPerDay }

\* the conversations of at most n messages, newest first, one tick apart
Conversations(n) ==
    UNION { { [i \in DOMAIN letters |-> Message(letters[i], newest - (i - 1))] :
                newest \in NewestStamps(n) } : letters \in SeqsUpTo(Letters, n) }

(***************************************************************************)
(* SummaryRecord, and _generate_fallback_summary: the rule-based summary   *)
(***************************************************************************)
Dict(items) == [type |-> "dict", value |-> items]

required_fields ==
    << <<"l", "a", "s", "t", "_", "c", "o", "n", "t", "a", "c", "t", "_", "d", "a", "t",
        "e">>, <<"s", "u", "m", "m", "a", "r", "y">>, <<"s", "e", "r", "v", "i", "c", "e", "s",
        "_", "u", "s", "e", "d">>, <<"n", "e", "x", "t", "_", "a", "c", "t", "i", "o", "n">> >>

RequiredFields == { required_fields[i] : i \in DOMAIN required_fields }

\* the dict literal with the four keys of a SummaryRecord
Record(last_contact_date, summary, services_used, next_action) ==
    Dict(required_fields[1] :> last_contact_date @@ required_fields[2] :> summary
         @@ required_fields[3] :> services_used @@ required_fields[4] :> next_action)

IsSummaryRecord(v) == v.type = "dict" /\ RequiredFields \subseteq DOMAIN v.value

service_keywords ==
    << <<"w", "e", "b", "s", "i", "t", "e">>, <<"d", "a", "s", "h", "b", "o", "a", "r",
        "d">>, <<"a", "n", "a", "l", "y", "t", "i", "c", "s">>, <<"a", "u", "t", "o", "m", "a",
        "t", "i", "o", "n">>, <<"a", "i">>, <<"d", "a", "t", "a", "b", "a", "s", "e">>,
       <<"c", "o", "n", "s", "u", "l", "t", "i", "n", "g">>, <<"d", "e", "v", "e", "l", "o", "p",
           "m", "e", "n", "t">> >>

\* faulty variant of all_text: the subjects are left out
all_bodies(conversations) ==
    join(<<" ">>, [i \in DOMAIN conversations |-> conversations[i].body])

\* line 175
all_text(conversations) ==
    join(<<" ">>, [i \in DOMAIN conversations |->
                    conversations[i].body \o <<" ">> \o conversations[i].subject])

\* lines 179-181
services(conversations) ==
    LET text == lower(all_text(conversations))
    IN  SelectSeq(service_keywords, LAMBDA keyword : In(keyword, text))

\* faulty variant of recent_subjects: every subject counts
all_subjects(conversations) ==
    [i \in DOMAIN conversations |-> conversations[i].subject]

\* conversations[:3], line 184
recent_subjects(conversations) ==
    [i \in 1..(IF Len(conversations) < 3 THEN Len(conversations) ELSE 3) |->
        conversations[i].subject]

any_subject(word, subjects) == \E i \in DOMAIN subjects : In(word, lower(subjects[i]))

pattern_summary(conversations, contact_name) ==
    LET subjects == recent_subjects(conversations)
    IN  IF any_subject(<<"p", "a", "y", "m", "e", "n", "t">>, subjects)
        THEN <<"a", "c", "t", "i", "v", "e", " ", "c", "l", "i", "e", "n", "t", " ", "r", "e",
            "l", "a", "t", "i", "o", "n", "s", "h", "i", "p", " ", "w", "i", "t", "h",
            " ">> \o contact_name
                \o <<".", " ", "r", "e", "c", "e", "n", "t", " ", "p", "a", "y", "m", "e", "n",
                    "t", " ", "p", "r", "o", "c", "e", "s", "s", "e", "d", ",", " ", "p", "r",
                    "o", "j", "e", "c", "t", " ", "i", "n", " ", "p", "r", "o", "g", "r", "e",
                    "s", "s", ".">>
        ELSE IF any_subject(<<"i", "n", "q", "u", "i", "r", "y">>, subjects)
        THEN <<"p", "o", "t", "e", "n", "t", "i", "a", "l", " ", "c", "l", "i", "e", "n", "t",
            " ">> \o contact_name
                \o <<" ", "h", "a", "s", " ", "m", "a", "d", "e", " ", "s", "e", "r", "v", "i",
                    "c", "e", " ", "i", "n", "q", "u", "i", "r", "i", "e", "s", ".", " ", "o",
                    "p", "p", "o", "r", "t", "u", "n", "i", "t", "y", " ", "f", "o", "r", " ",
                    "n", "e", "w", " ", "b", "u", "s", "i", "n", "e", "s", "s", ".">>
        ELSE <<"o", "n", "g", "o", "i", "n", "g", " ", "c", "o", "m", "m", "u", "n", "i", "c",
            "a", "t", "i", "o", "n", " ", "w", "i", "t", "h", " ">> \o contact_name
                \o <<".", " ", "p", "r", "o", "j", "e", "c", "t", " ", "u", "p", "d", "a", "t",
                    "e", "s", " ", "a", "n", "d", " ", "c", "o", "l", "l", "a", "b", "o", "r",
                    "a", "t", "i", "o", "n", ".">>

\* faulty variant of generate_fallback_summary: the date is the day of the call
generate_fallback_summary_dated_now(conversations, contact_name) ==
    Record(strftime(clock * TicksPerDay, "%Y-%m-%d"),
           pattern_summary(conversations, contact_name),
           LET found == services(conversations)
           IN  IF found # <<>> THEN join(<<",", " ">>, found) ELSE <<"g", "e", "n", "e", "r", "a",
               "l", " ", "c", "o", "n", "s", "u", "l", "t", "i", "n", "g">>,
           <<"f", "o", "l", "l", "o", "w", " ", "u", "p", " ", "o", "n", " ", "c", "u", "r", "r",
               "e", "n", "t", " ", "p", "r", "o", "j", "e", "c", "t", " ", "s", "t", "a", "t",
               "u", "s">>)

generate_fallback_summary(conversations, contact_name) ==
    Record(strftime(conversations[1].timestamp, "%Y-%m-%d"),
           pattern_summary(conversations, contact_name),
           LET found == services(conversations)
           IN  IF found # <<>> THEN join(<<",", " ">>, found) ELSE <<"g", "e", "n", "e", "r", "a",
               "l", " ", "c", "o", "n", "s", "u", "l", "t", "i", "n", "g">>,
           <<"f", "o", "l", "l", "o", "w", " ", "u", "p", " ", "o", "n", " ", "c", "u", "r", "r",
               "e", "n", "t", " ", "p", "r", "o", "j", "e", "c", "t", " ", "s", "t", "a", "t",
               "u", "s">>)

(***************************************************************************)
(* _format_conversations_for_ai: the text handed to the backend            *)
(***************************************************************************)
direction(conv) == IF conv.from # me THEN <<"f", "r", "o", "m", " ", "c", "l", "i", "e", "n",
    "t">> ELSE <<"t", "o", " ", "c", "l", "i", "e", "n", "t">>

format_message(conv) ==
    <<"[">> \o strftime(conv.timestamp, "%y-%m-%d") \o <<"]", " ", "(">> \o direction(conv)
        \o <<")", " ", "s", "u", "b", "j", "e", "c", "t", ":", " ">> \o conv.subject \o <<"\n">>
        \o <<"m", "e", "s", "s", "a", "g", "e", ":", " ">> \o Head_(conv.body, 300) \o <<".", ".",
            ".", "\n", "\n">>

format_conversations_for_ai(conversations, contact_name) ==
    <<"e", "m", "a", "i", "l", " ", "c", "o", "n", "v", "e", "r", "s", "a", "t", "i", "o", "n",
        " ", "h", "i", "s", "t", "o", "r", "y", " ", "w", "i", "t", "h",
        " ">> \o contact_name \o <<":", "\n", "\n">>
        \o join(<<>>, [i \in DOMAIN conversations |-> format_message(conversations[i])])

(***************************************************************************)
(* Validation of what json.loads returned                                  *)
(***************************************************************************)
\* field in data; raises TypeError for a number, a boolean or None
NotIterable(data) == data.type \notin {"dict", "list", "str"}

FieldIn(field, data) ==
    CASE data.type = "dict" -> field \in DOMAIN data.value
      [] data.type = "list" -> \E i \in DOMAIN data.value : data.value[i] = field
      [] data.type = "str"  -> In(field, data.value)

Raised == [type |-> "raised", value |-> <<>>]

\* lines 157-158 for one field: the value afterwards, or Raised
validate_field(data, field) ==
    IF data.type = "raised" \/ NotIterable(data) THEN Raised
    ELSE IF FieldIn(field, data) THEN data
    ELSE IF data.type = "dict"
         THEN Dict(field :> <<"n", "o", "t", " ", "s", "p", "e", "c", "i", "f", "i", "e",
             "d">> @@ data.value)
         ELSE Raised   \* item assignment on a list or a str

\* faulty variant of validate_fields: an absent field stays absent
validate_nothing(data, fields) == data

\* lines 156-158
RECURSIVE validate_fields(_, _)
validate_fields(data, fields) ==
    IF fields = <<>> THEN data
    ELSE validate_fields(validate_field(data, Head(fields)), Tail(fields))

(***************************************************************************)
(* The reply of the backend.  Its text is a sequence of tokens: white      *)
(* space, a fence (```json or ```), a JSON document, or other prose.      *)
(***************************************************************************)
NoJson == [type |-> "none", value |-> <<>>]
Token(t) == [t |-> t, json |-> NoJson]
Json(v) == [t |-> "json", json |-> v]

strip(text) ==
    LET inner == { i \in DOMAIN text : text[i].t # "ws" }
    IN  IF inner = {} THEN <<>>
        ELSE SubSeq(text, CHOOSE i \in inner : \A j \in inner : i <= j,
                          CHOOSE i \in inner : \A j \in inner : j <= i)

\* result_text.replace('```json', '').replace('```', '')
remove_fences(text) == SelectSeq(text, LAMBDA token : token.t \notin {"fence json", "fence"})

\* lines 145-149
clean_up(text) ==
    IF strip(text) # <<>> /\ strip(text)[1].t = "fence json"
    THEN strip(remove_fences(strip(text)))
    ELSE strip(text)

\* json.loads raises unless the text is one JSON document, white space aside
loads_raises(text) ==
    LET solid == SelectSeq(text, LAMBDA token : token.t # "ws")
    IN  ~(Len(solid) = 1 /\ solid[1].t = "json")

loads(text) == SelectSeq(text, LAMBDA token : token.t # "ws")[1].json

(***************************************************************************)
(* _generate_fallback_summary_from_text: the text-scan fallback            *)
(***************************************************************************)
bracketed(line) == split(split(line, "[")[2], "]")[1]

scan_dates(conversation_text) ==
    LET lines == split(conversation_text, "\n")
        dated == SelectSeq(lines, LAMBDA line : In(<<"[">>, line) /\ In(<<"]">>, line))
    IN  [i \in DOMAIN dated |-> bracketed(dated[i])]

generate_fallback_summary_from_text(conversation_text, contact_name) ==
    LET dates == scan_dates(conversation_text)
    IN  Record(IF dates # <<>> THEN dates[1] ELSE <<"2", "0", "2", "4", "-", "0", "1", "-", "0",
        "1">>,
               <<"c", "o", "n", "v", "e", "r", "s", "a", "t", "i", "o", "n", " ", "h", "i", "s",
                   "t", "o", "r", "y", " ", "a", "v", "a", "i", "l", "a", "b", "l", "e", " ", "w",
                   "i", "t", "h", " ">> \o contact_name
                   \o <<".", " ", "c", "o", "n", "t", "a", "i", "n", "s", " ", "p", "r", "o", "j",
                       "e", "c", "t", " ", "c", "o", "m", "m", "u", "n", "i", "c", "a", "t", "i",
                       "o", "n", " ", "a", "n", "d", " ", "u", "p", "d", "a", "t", "e", "s",
                       ".">>,
               <<"c", "o", "n", "s", "u", "l", "t", "i", "n", "g", " ", "s", "e", "r", "v", "i",
                   "c", "e", "s">>,
               <<"r", "e", "v", "i", "e", "w", " ", "c", "o", "n", "v", "e", "r", "s", "a", "t",
                   "i", "o", "n", " ", "d", "e", "t", "a", "i", "l", "s", " ", "a", "n", "d", " ",
                   "f", "o", "l", "l", "o", "w", " ", "u", "p">>)

(***************************************************************************)
(* _generate_ai_summary, given what generate_content does                  *)
(***************************************************************************)
\* faulty variant of generate_ai_summary: a failure falls back on the rules
generate_ai_summary_or_rules(reply, conversation_text, contact_name) ==
    IF reply.raises \/ loads_raises(clean_up(reply.text))
    THEN generate_fallback_summary(call.conversations, contact_name)
    ELSE validate_fields(loads(clean_up(reply.text)), required_fields)

generate_ai_summary(reply, conversation_text, contact_name) ==
    IF reply.raises \/ loads_raises(clean_up(reply.text))
    THEN generate_fallback_summary_from_text(conversation_text, contact_name)
    ELSE LET summary_data == validate_fields(loads(clean_up(reply.text)), required_fields)
         IN  IF summary_data.type = "raised"
             THEN generate_fallback_summary_from_text(conversation_text, contact_name)
             ELSE summary_data

(***************************************************************************)
(* summarize_conversations as a state machine: the call is entered, asks   *)
(* the backend when one is configured, and returns.                        *)
(***************************************************************************)
NoResult == [type |-> "none", value |-> <<>>]
NoReply == [raises |-> FALSE, text |-> <<>>, asked |-> FALSE]

\* the call summarize_conversations(conversations, contact_name, contact_email)
\* on an AIProcessor whose `model` is set or None
NewCall(conversations, contact_name, model, history) ==
    [pc |-> "called", conversations |-> conversations, contact_name |-> contact_name,
     model |-> model, conversation_text |-> <<>>, reply |-> NoReply,
     generate_content_calls |-> 0, result |-> NoResult, history |-> history]

\* faulty variant of NoConversations: the date is a default, not None
NoConversationsDated ==
    Record(<<"2", "0", "2", "4", "-", "0", "1", "-", "0", "1">>, <<"n", "o", " ", "e", "m", "a",
        "i", "l", " ", "c", "o", "n", "v", "e", "r", "s", "a", "t", "i", "o", "n", "s", " ", "f",
        "o", "u", "n", "d">>, <<"n", "o", "n", "e">>,
           <<"r", "e", "a", "c", "h", " ", "o", "u", "t", " ", "t", "o", " ", "e", "s", "t", "a",
               "b", "l", "i", "s", "h", " ", "c", "o", "n", "t", "a", "c", "t">>)

\* lines 91-96
NoConversations ==
    Record(PyNone, <<"n", "o", " ", "e", "m", "a", "i", "l", " ", "c", "o", "n", "v", "e", "r",
        "s", "a", "t", "i", "o", "n", "s", " ", "f", "o", "u", "n", "d">>, <<"n", "o", "n",
        "e">>,
           <<"r", "e", "a", "c", "h", " ", "o", "u", "t", " ", "t", "o", " ", "e", "s", "t", "a",
               "b", "l", "i", "s", "h", " ", "c", "o", "n", "t", "a", "c", "t">>)

\* lines 90-109, up to the call of the backend
summarize_conversations ==
    /\ call.pc = "called"
    /\ IF call.conversations = <<>>
       THEN call' = [call EXCEPT !.pc = "returned", !.result = NoConversations]
       ELSE LET conversation_text ==
                    format_conversations_for_ai(call.conversations, call.contact_name)
            IN  IF call.model
                THEN call' = [call EXCEPT !.pc = "generate_content",
                                          !.conversation_text = conversation_text]
                ELSE call' = [call EXCEPT !.pc = "returned",
                                          !.conversation_text = conversation_text,
                                          !.result = generate_fallback_summary(
                                                        call.conversations, call.contact_name)]
    /\ UNCHANGED <<jobs, results, files, tasks, uuids, clock, response>>

\* lines 143-165: the backend is asked once and the call returns
generate_content(reply) ==
    /\ call.pc = "generate_content"
    /\ call' = [call EXCEPT !.pc = "returned",
                            !.reply = [reply EXCEPT !.asked = TRUE],
                            !.generate_content_calls = @ + 1,
                            !.result = generate_ai_summary(reply, call.conversation_text,
                                                           call.contact_name)]
    /\ UNCHANGED <<jobs, results, files, tasks, uuids, clock, response>>

(***************************************************************************)
(* What the backend may reply                                              *)
(***************************************************************************)
FromBackend == <<"f", "r", "o", "m", " ", "t", "h", "e", " ", "b", "a", "c", "k", "e", "n", "d">>

\* JSON objects: some of the four fields, a null, a fifth field
JsonObjects ==
    { Dict([field \in present |-> FromBackend]) : present \in SUBSET RequiredFields }
    \cup { Record(PyNone, FromBackend, FromBackend, FromBackend),
           Dict(<<"m", "o", "o", "d">> :> FromBackend @@ required_fields[2] :> FromBackend) }

\* JSON documents that are not objects
JsonOthers ==
    { [type |-> "list", value |-> <<>>],
      [type |-> "list", value |-> <<required_fields[2]>>],
      [type |-> "list", value |-> required_fields],
      [type |-> "str", value |-> FromBackend],
      [type |-> "str", value |-> join(<<",", " ">>, required_fields)],
      [type |-> "int", value |-> <<>>],
      [type |-> "NoneType", value |-> <<>>] }

Texts ==
    { <<Json(v)>> : v \in JsonObjects \cup JsonOthers }
    \cup { <<Token("ws"), Token("fence json"), Token("ws"), Json(v), Token("ws"), Token("fence")>> :
             v \in JsonObjects }
    \cup { <<Token("fence"), Token("ws"), Json(v), Token("ws"), Token("fence")>> : v \in JsonObjects }
    \cup { <<>>, <<Token("prose")>>, <<Token("prose"), Json(Dict(<<>>))>> }

Replies ==
    { [raises |-> FALSE, text |-> text, asked |-> FALSE] : text \in Texts }
    \cup { [raises |-> TRUE, text |-> <<>>, asked |-> FALSE] }

(***************************************************************************)
(* Specification of one call, with and without a backend                   *)
(***************************************************************************)
Idle ==
    /\ jobs = <<>>
    /\ results = <<>>
    /\ files = <<>>
    /\ tasks = <<>>
    /\ uuids = {}
    /\ clock = 0
    /\ response = NoResponse

InitSummarizer ==
    /\ Idle
    /\ \E conversations \in Conversations(MaxAsked), contact_name \in ContactNames,
          model \in BOOLEAN :
          call = NewCall(conversations, contact_name, model, <<>>)

Summarize == summarize_conversations

GenerateContent == \E reply \in Replies : generate_content(reply)

NextSummarizer == Summarize \/ GenerateContent

SpecSummarizer == InitSummarizer /\ [][NextSummarizer]_vars

Returned == call.pc = "returned"

(***************************************************************************)
(* Specification of one call without a backend: the rule-based summary     *)
(***************************************************************************)
InitRules ==
    /\ Idle
    /\ \E conversations \in Conversations(MaxMessages), contact_name \in ContactNames :
          call = NewCall(conversations, contact_name, FALSE, <<>>)

NextRules == Summarize

SpecRules == InitRules /\ [][NextRules]_vars

(***************************************************************************)
(* Specification of two calls in a row on one processor without a backend: *)
(* the first call and its result are remembered, time passes, and the      *)
(* summarizer is called again.                                             *)
(***************************************************************************)
InitRepeated ==
    /\ Idle
    /\ \E conversations \in Conversations(MaxRepeated), contact_name \in ContactNames :
          call = NewCall(conversations, contact_name, FALSE, <<>>)

Again ==
    /\ call.pc = "returned"
    /\ call.history = <<>>
    /\ \E conversations \in Conversations(MaxRepeated), contact_name \in ContactNames :
          call' = NewCall(conversations, contact_name, FALSE,
                          <<[conversations |-> call.conversations,
                             contact_name |-> call.contact_name,
                             result |-> call.result]>>)
    /\ clock' = clock + 1
    /\ UNCHANGED <<jobs, results, files, tasks, uuids, response>>

NextRepeated == Summarize \/ Again

SpecRepeated == InitRepeated /\ [][NextRepeated]_vars

(***************************************************************************)
(* C13: summarize_conversations always returns a SummaryRecord, a dict     *)
(* with the four fields, whatever the messages and whatever the backend    *)
(* does (not configured, a JSON object, other JSON, other text, raising).  *)
(***************************************************************************)
AlwaysASummaryRecord == Returned => IsSummaryRecord(call.result)

(***************************************************************************)
(* Vocabulary of the claims about one call                                 *)
(***************************************************************************)
Field(name) == call.result.value[name]

\* the backend was asked and what it said is no JSON document
Unparsed == call.reply.asked /\ ~call.reply.raises /\ loads_raises(clean_up(call.reply.text))

\* the backend was asked and what it said is a JSON document
Parsed == call.reply.asked /\ ~call.reply.raises /\ ~loads_raises(clean_up(call.reply.text))

\* the text between the first "[" of a text and the first "]" after it
FirstBracketed(text) ==
    LET open == CHOOSE i \in DOMAIN text : text[i] = "[" /\ \A j \in 1..(i - 1) : text[j] # "["
        close == CHOOSE i \in DOMAIN text :
                    /\ i > open /\ text[i] = "]"
                    /\ \A j \in (open + 1)..(i - 1) : text[j] # "]"
    IN  SubSeq(text, open + 1, close - 1)

(***************************************************************************)
(* C14: for an empty message list the summarizer returns the fixed record  *)
(* (no date, 'no email conversations found', 'none', 'reach out to         *)
(* establish contact'), backend configured or not, and does not ask the    *)
(* backend.                                                                *)
(***************************************************************************)
EmptyListGivesFixedRecord ==
    Returned /\ call.conversations = <<>> =>
        /\ call.result.type = "dict"
        /\ DOMAIN call.result.value = RequiredFields
        /\ Field(<<"l", "a", "s", "t", "_", "c", "o", "n", "t", "a", "c", "t", "_", "d", "a", "t",
            "e">>) = PyNone
        /\ Field(<<"s", "u", "m", "m", "a", "r", "y">>) = <<"n", "o", " ", "e", "m", "a", "i",
            "l", " ", "c", "o", "n", "v", "e", "r", "s", "a", "t", "i", "o", "n", "s", " ", "f",
            "o", "u", "n", "d">>
        /\ Field(<<"s", "e", "r", "v", "i", "c", "e", "s", "_", "u", "s", "e", "d">>) = <<"n",
            "o", "n", "e">>
        /\ Field(<<"n", "e", "x", "t", "_", "a", "c", "t", "i", "o", "n">>) = <<"r", "e", "a",
            "c", "h", " ", "o", "u", "t", " ", "t", "o", " ", "e", "s", "t", "a", "b", "l", "i",
            "s", "h", " ", "c", "o", "n", "t", "a", "c", "t">>
        /\ call.generate_content_calls = 0
        /\ ~call.reply.asked

\* an empty list was summarised by a processor with a backend
EmptyListWithBackend == Returned /\ call.conversations = <<>> /\ call.model

ParsedObjectIsCompleted ==
    Returned /\ Parsed /\ loads(clean_up(call.reply.text)).type = "dict" =>
        LET summary_data == loads(clean_up(call.reply.text)).value
        IN  /\ call.result.type = "dict"
            /\ RequiredFields \subseteq DOMAIN call.result.value
            /\ \A key \in DOMAIN summary_data : Field(key) = summary_data[key]
            /\ \A field \in RequiredFields \ DOMAIN summary_data :
                  Field(field) = <<"n", "o", "t", " ", "s", "p", "e", "c", "i", "f", "i", "e", "d">>

\* a fenced object with a summary and no next action came back completed
FencedObjectCompleted ==
    /\ Returned /\ Parsed
    /\ \E i \in DOMAIN call.reply.text : call.reply.text[i].t = "fence json"
    /\ call.result.type = "dict"
    /\ Field(<<"s", "u", "m", "m", "a", "r", "y">>) = FromBackend
    /\ Field(<<"n", "e", "x", "t", "_", "a", "c", "t", "i", "o", "n">>) = <<"n", "o", "t", " ",
        "s", "p", "e", "c", "i", "f", "i", "e", "d">>

(***************************************************************************)
(* Vocabulary of the claims about the rule-based summary                   *)
(***************************************************************************)
RuleBased == Returned /\ ~call.model /\ call.conversations # <<>>

\* the entries of a comma-separated list
Items(list) ==
    LET parts == split(list, ",")
    IN  { IF parts[i] # <<>> /\ Head(parts[i]) = " " THEN Tail(parts[i]) ELSE parts[i] :
            i \in DOMAIN parts }

\* the word occurs, in whatever case, in a subject or a body
Occurs(word) ==
    \E i \in DOMAIN call.conversations :
        \/ In(word, lower(call.conversations[i].subject))
        \/ In(word, lower(call.conversations[i].body))

\* the word occurs, in whatever case, in a subject of the first n messages
OccursInSubject(word, n) ==
    \E i \in DOMAIN call.conversations :
        i <= n /\ In(word, lower(call.conversations[i].subject))

(***************************************************************************)
(* C17: in the rule-based summary a service keyword is listed in           *)
(* services_used exactly if it occurs, in whatever case, in the subjects   *)
(* and bodies; services_used is 'general consulting' exactly if none does. *)
(***************************************************************************)
ServicesAreTheKeywordsFound ==
    RuleBased =>
        /\ \A i \in DOMAIN service_keywords :
              service_keywords[i] \in Items(Field(<<"s", "e", "r", "v", "i", "c", "e", "s", "_",
                  "u", "s", "e", "d">>))
                  <=> Occurs(service_keywords[i])
        /\ Field(<<"s", "e", "r", "v", "i", "c", "e", "s", "_", "u", "s", "e", "d">>) = <<"g",
            "e", "n", "e", "r", "a", "l", " ", "c", "o", "n", "s", "u", "l", "t", "i", "n",
            "g">>
              <=> \A i \in DOMAIN service_keywords : ~Occurs(service_keywords[i])

\* 'AI' in capitals and 'consulting' in a capitalised subject were found
CapitalisedKeywordsFound ==
    RuleBased /\ Field(<<"s", "e", "r", "v", "i", "c", "e", "s", "_", "u", "s", "e",
        "d">>) = <<"a", "u", "t", "o", "m", "a", "t", "i", "o", "n", ",", " ", "a", "i", ",", " ",
        "c", "o", "n", "s", "u", "l", "t", "i", "n", "g">>

(***************************************************************************)
(* C18: the branch of the rule-based summary depends only on the subjects  *)
(* of the 3 most recent messages: 'payment' in one of them gives the       *)
(* active-client summary, also when another holds 'inquiry'; otherwise     *)
(* 'inquiry' gives the prospective-client summary; otherwise the generic   *)
(* one.  A 4th or later message changes nothing, and next_action is always *)
(* 'follow up on current project status'.                                  *)
(***************************************************************************)
BranchFollowsThreeNewestSubjects ==
    RuleBased =>
        /\ Field(<<"s", "u", "m", "m", "a", "r", "y">>) =
              IF OccursInSubject(<<"p", "a", "y", "m", "e", "n", "t">>, 3)
              THEN <<"a", "c", "t", "i", "v", "e", " ", "c", "l", "i", "e", "n", "t", " ", "r",
                  "e", "l", "a", "t", "i", "o", "n", "s", "h", "i", "p", " ", "w", "i", "t", "h",
                  " ">> \o call.contact_name
                      \o <<".", " ", "r", "e", "c", "e", "n", "t", " ", "p", "a", "y", "m", "e",
                          "n", "t", " ", "p", "r", "o", "c", "e", "s", "s", "e", "d", ",", " ",
                          "p", "r", "o", "j", "e", "c", "t", " ", "i", "n", " ", "p", "r", "o",
                          "g", "r", "e", "s", "s", ".">>
              ELSE IF OccursInSubject(<<"i", "n", "q", "u", "i", "r", "y">>, 3)
              THEN <<"p", "o", "t", "e", "n", "t", "i", "a", "l", " ", "c", "l", "i", "e", "n",
                  "t", " ">> \o call.contact_name
                      \o <<" ", "h", "a", "s", " ", "m", "a", "d", "e", " ", "s", "e", "r", "v",
                          "i", "c", "e", " ", "i", "n", "q", "u", "i", "r", "i", "e", "s", ".",
                          " ", "o", "p", "p", "o", "r", "t", "u", "n", "i", "t", "y", " ", "f",
                          "o", "r", " ", "n", "e", "w", " ", "b", "u", "s", "i", "n", "e", "s",
                          "s", ".">>
              ELSE <<"o", "n", "g", "o", "i", "n", "g", " ", "c", "o", "m", "m", "u", "n", "i",
                  "c", "a", "t", "i", "o", "n", " ", "w", "i", "t", "h",
                  " ">> \o call.contact_name
                      \o <<".", " ", "p", "r", "o", "j", "e", "c", "t", " ", "u", "p", "d", "a",
                          "t", "e", "s", " ", "a", "n", "d", " ", "c", "o", "l", "l", "a", "b",
                          "o", "r", "a", "t", "i", "o", "n", ".">>
        /\ Field(<<"n", "e", "x", "t", "_", "a", "c", "t", "i", "o", "n">>) = <<"f", "o", "l",
            "l", "o", "w", " ", "u", "p", " ", "o", "n", " ", "c", "u", "r", "r", "e", "n", "t",
            " ", "p", "r", "o", "j", "e", "c", "t", " ", "s", "t", "a", "t", "u", "s">>

\* a payment in the 4th message, an inquiry among the first three
PaymentTooOldToCount ==
    /\ RuleBased
    /\ Len(call.conversations) = 4
    /\ In(<<"p", "a", "y", "m", "e", "n", "t">>, lower(call.conversations[4].subject))
    /\ startswith(Field(<<"s", "u", "m", "m", "a", "r", "y">>), <<"p", "o", "t", "e", "n", "t",
        "i", "a", "l", " ", "c", "l", "i", "e", "n", "t", " ">>)

(***************************************************************************)
(* C19: the rule-based summarizer is a pure function of its message list:  *)
(* two calls with the same list return the same record, whatever the       *)
(* earlier call and whatever else is passed.  As stated this fails, since  *)
(* the contact name is part of the summary: RuleBasedDependsOnListOnly.    *)
(* What holds is that two calls with the same list and the same contact    *)
(* name return the same record, at whatever time they are made.            *)
(***************************************************************************)
SecondCallReturned == Returned /\ call.history # <<>>

TextScanDateIsNewestMessageDate ==
    Returned /\ call.model /\ call.conversations # <<>> /\ (call.reply.raises \/ Unparsed) =>
        /\ Field(<<"l", "a", "s", "t", "_", "c", "o", "n", "t", "a", "c", "t", "_", "d", "a", "t",
            "e">>) = strftime(call.conversations[1].timestamp, "%y-%m-%d")
        /\ Field(<<"l", "a", "s", "t", "_", "c", "o", "n", "t", "a", "c", "t", "_", "d", "a", "t",
            "e">>) # <<"2", "0", "2", "4", "-", "0", "1", "-", "0", "1">>

(***************************************************************************)
(* The conversation sources: generate_dummy_email_data of ai_processor.py  *)
(* and search_conversations of app/gmail_client.py                         *)
(***************************************************************************)
\* bound of the model: the most messages the mail search finds
MaxFound == 3

\* lines 28-64; days_ago is drawn from lo..hi
templates(email, name) ==
    << [subject |-> <<"p", "r", "o", "j", "e", "c", "t", " ", "u", "p", "d", "a", "t", "e", " ",
        "n", "e", "e", "d", "e", "d">>, from |-> email,
        body |-> <<"h", "i", ",", " ", "j", "u", "s", "t", " ", "w", "a", "n", "t", "e", "d", " ",
            "t", "o", " ", "c", "h", "e", "c", "k", " ", "o", "n", " ", "t", "h", "e", " ", "s",
            "t", "a", "t", "u", "s", " ", "o", "f", " ", "o", "u", "r", " ", "w", "e", "b", "s",
            "i", "t", "e", " ", "p", "r", "o", "j", "e", "c", "t", ".", " ", "w", "h", "e", "n",
            " ", "c", "a", "n", " ", "w", "e", " ", "e", "x", "p", "e", "c", "t", " ", "t", "h",
            "e", " ", "n", "e", "x", "t", " ", "d", "e", "l", "i", "v", "e", "r", "a", "b", "l",
            "e", "?", " ", "t", "h", "a", "n", "k", "s", ",", " ">> \o name,
        lo |-> 1, hi |-> 30],
       [subject |-> <<"r", "e", ":", " ", "p", "r", "o", "j", "e", "c", "t", " ", "u", "p", "d",
           "a", "t", "e", " ", "n", "e", "e", "d", "e", "d">>, from |-> me,
        body |-> <<"h", "i", " ">> \o name \o <<",", " ", "t", "h", "a", "n", "k", "s", " ", "f",
            "o", "r", " ", "c", "h", "e", "c", "k", "i", "n", "g", " ", "i", "n", ".", " ", "t",
            "h", "e", " ", "d", "e", "s", "i", "g", "n", " ", "p", "h", "a", "s", "e", " ", "i",
            "s", " ", "c", "o", "m", "p", "l", "e", "t", "e", " ", "a", "n", "d", " ", "w", "e",
            "'", "r", "e", " ", "m", "o", "v", "i", "n", "g", " ", "i", "n", "t", "o", " ", "d",
            "e", "v", "e", "l", "o", "p", "m", "e", "n", "t", ".", " ", "e", "x", "p", "e", "c",
            "t", " ", "t", "h", "e", " ", "n", "e", "x", "t", " ", "u", "p", "d", "a", "t", "e",
            " ", "b", "y", " ", "f", "r", "i", "d", "a", "y", ".">>,
        lo |-> 1, hi |-> 30],
       [subject |-> <<"c", "o", "n", "s", "u", "l", "t", "i", "n", "g", " ", "s", "e", "r", "v",
           "i", "c", "e", "s", " ", "i", "n", "q", "u", "i", "r", "y">>, from |-> email,
        body |-> <<"i", "'", "m", " ", "i", "n", "t", "e", "r", "e", "s", "t", "e", "d", " ", "i",
            "n", " ", "y", "o", "u", "r", " ", "a", "i", " ", "a", "u", "t", "o", "m", "a", "t",
            "i", "o", "n", " ", "s", "e", "r", "v", "i", "c", "e", "s", " ", "f", "o", "r", " ",
            "o", "u", "r", " ", "c", "u", "s", "t", "o", "m", "e", "r", " ", "s", "u", "p", "p",
            "o", "r", "t", ".", " ", "c", "a", "n", " ", "w", "e", " ", "s", "c", "h", "e", "d",
            "u", "l", "e", " ", "a", " ", "c", "a", "l", "l", " ", "t", "o", " ", "d", "i", "s",
            "c", "u", "s", "s", " ", "p", "r", "i", "c", "i", "n", "g", " ", "a", "n", "d", " ",
            "t", "i", "m", "e", "l", "i", "n", "e", "?", " ", "b", "e", "s", "t", ",",
            " ">> \o name,
        lo |-> 15, hi |-> 60],
       [subject |-> <<"f", "o", "l", "l", "o", "w", " ", "u", "p", " ", "-", " ", "a", "n", "a",
           "l", "y", "t", "i", "c", "s", " ", "d", "a", "s", "h", "b", "o", "a", "r",
           "d">>, from |-> email,
        body |-> <<"t", "h", "e", " ", "a", "n", "a", "l", "y", "t", "i", "c", "s", " ", "d", "a",
            "s", "h", "b", "o", "a", "r", "d", " ", "y", "o", "u", " ", "b", "u", "i", "l", "t",
            " ", "i", "s", " ", "w", "o", "r", "k", "i", "n", "g", " ", "g", "r", "e", "a", "t",
            ".", " ", "w", "e", "'", "r", "e", " ", "s", "e", "e", "i", "n", "g", " ", "3", "0",
            "%", " ", "i", "m", "p", "r", "o", "v", "e", "m", "e", "n", "t", " ", "i", "n", " ",
            "o", "u", "r", " ", "r", "e", "p", "o", "r", "t", "i", "n", "g", " ", "e", "f", "f",
            "i", "c", "i", "e", "n", "c", "y", ".", " ", "w", "o", "u", "l", "d", " ", "l", "i",
            "k", "e", " ", "t", "o", " ", "d", "i", "s", "c", "u", "s", "s", " ", "a", "d", "d",
            "i", "n", "g", " ", "m", "o", "r", "e", " ", "f", "e", "a", "t", "u", "r", "e", "s",
            ".">>,
        lo |-> 5, hi |-> 45],
       [subject |-> <<"p", "a", "y", "m", "e", "n", "t", " ", "p", "r", "o", "c", "e", "s", "s",
           "e", "d">>, from |-> me,
        body |-> <<"h", "i", " ">> \o name \o <<",", " ", "c", "o", "n", "f", "i", "r", "m", "i",
            "n", "g", " ", "w", "e", " ", "r", "e", "c", "e", "i", "v", "e", "d", " ", "y", "o",
            "u", "r", " ", "p", "a", "y", "m", "e", "n", "t", " ", "f", "o", "r", " ", "t", "h",
            "e", " ", "d", "a", "t", "a", "b", "a", "s", "e", " ", "o", "p", "t", "i", "m", "i",
            "z", "a", "t", "i", "o", "n", " ", "p", "r", "o", "j", "e", "c", "t", ".", " ", "w",
            "o", "r", "k", " ", "w", "i", "l", "l", " ", "b", "e", "g", "i", "n", " ", "m", "o",
            "n", "d", "a", "y", ".">>,
        lo |-> 10, hi |-> 40] >>

\* the largest days_ago that can be drawn
LongestAgo ==
    LET all == templates(contact_email, <<"a", "n", "n">>)
    IN  CHOOSE d \in { all[i].hi : i \in DOMAIN all } : \A i \in DOMAIN all : all[i].hi <= d

\* random.sample(templates, k): k different templates in some order
Samples(k) ==
    { s \in [1..k -> DOMAIN templates(contact_email, <<"a", "n", "n">>)] :
        \A i, j \in 1..k : i # j => s[i] # s[j] }

\* the key of the sort, line 83 and gmail_client.py line 114
timestamp_of(x) == x.timestamp

\* list.sort(key=..., reverse=True) inserts each element behind the elements
\* whose key is at least its own: equal keys keep their order
insert(sorted, x) ==
    LET k == Cardinality({ i \in DOMAIN sorted : timestamp_of(sorted[i]) >= timestamp_of(x) })
    IN  SubSeq(sorted, 1, k) \o <<x>> \o SubSeq(sorted, k + 1, Len(sorted))

\* faulty variant of sort_reverse: reverse=True is left out
RECURSIVE sort_ascending(_)
sort_ascending(list) ==
    IF list = <<>> THEN <<>>
    ELSE LET sorted == sort_ascending(SubSeq(list, 1, Len(list) - 1))
             x == list[Len(list)]
             k == Cardinality({ i \in DOMAIN sorted : timestamp_of(sorted[i]) <= timestamp_of(x) })
         IN  SubSeq(sorted, 1, k) \o <<x>> \o SubSeq(sorted, k + 1, Len(sorted))

RECURSIVE sort_reverse(_)
sort_reverse(list) ==
    IF list = <<>> THEN <<>>
    ELSE insert(sort_reverse(SubSeq(list, 1, Len(list) - 1)), list[Len(list)])

\* the draws of one call of the demo generator that matter: the sample, the
\* days_ago of each sampled template (an end of its range), and whether
\* datetime.now() reads a later tick in each iteration
DemoDraws ==
    UNION { { [pc |-> "source", source |-> "demo", selected |-> selected,
               days_ago |-> days_ago, now |-> LongestAgo * TicksPerDay, later |-> later] :
                selected \in Samples(k), days_ago \in [1..k -> {"lo", "hi"}],
                later \in {0, 1} } : k \in 2..4 }

\* lines 66-84
generate_dummy_email_data(draw, email, name) ==
    LET template(i) == templates(email, name)[draw.selected[i]]
        ago(i) == IF draw.days_ago[i] = "lo" THEN template(i).lo ELSE template(i).hi
        conversations ==
            [i \in DOMAIN draw.selected |->
                Message([subject |-> template(i).subject, from |-> template(i).from,
                         body |-> template(i).body],
                        (draw.now + draw.later * (i - 1)) - ago(i) * TicksPerDay)]
    IN  sort_reverse(conversations)

\* what the mail service lists for one search.  An entry of the listing
\* carries an id or not; the message of an id can be fetched or get raises;
\* a fetched message parses to a Message or _parse_message returns None;
\* the Date header of a parsed message is readable or not
NoLetter == [subject |-> <<>>, body |-> <<>>, from |-> <<>>]

Found ==
    { [id |-> FALSE, fetched |-> FALSE, parsed |-> FALSE, dated |-> FALSE,
       letter |-> NoLetter, timestamp |-> 0],
      [id |-> TRUE, fetched |-> FALSE, parsed |-> FALSE, dated |-> FALSE,
       letter |-> NoLetter, timestamp |-> 0],
      [id |-> TRUE, fetched |-> TRUE, parsed |-> FALSE, dated |-> FALSE,
       letter |-> NoLetter, timestamp |-> 0] }
    \cup { [id |-> TRUE, fetched |-> TRUE, parsed |-> TRUE, dated |-> FALSE,
            letter |-> letter, timestamp |-> TicksPerDay] :
             letter \in { l \in Letters : l.from = contact_email } }
    \cup { [id |-> TRUE, fetched |-> TRUE, parsed |-> TRUE, dated |-> TRUE,
            letter |-> letter, timestamp |-> timestamp] :
             letter \in { l \in Letters : l.from = contact_email },
             timestamp \in { TicksPerDay, TicksPerDay + 1 } }

\* the searches of an authenticated client: the listing raises or succeeds
LiveDraws ==
    { [pc |-> "source", source |-> "live", service |-> TRUE, list_raises |-> list_raises,
       messages |-> messages] :
        list_raises \in BOOLEAN, messages \in SeqsUpTo(Found, MaxFound) }

\* the same searches on a client that never authenticated (self.service is None)
UnauthenticatedDraws == { [draw EXCEPT !.service = FALSE] : draw \in LiveDraws }

\* gmail_client.py lines 208-218
parse_date(entry) == IF entry.dated THEN entry.timestamp ELSE 0

\* gmail_client.py lines 100-111: the entry gives a Message, or is skipped
kept(entry) == entry.fetched /\ entry.parsed

\* faulty variant of search_conversations: one failure gives up the search
search_conversations_all_or_nothing(draw) ==
    IF draw.list_raises \/ \E i \in DOMAIN draw.messages : ~kept(draw.messages[i])
    THEN <<>>
    ELSE sort_reverse([i \in DOMAIN draw.messages |->
                          Message(draw.messages[i].letter, parse_date(draw.messages[i]))])

\* gmail_client.py lines 91-119.  For an entry without id, msg['id'] raises
\* in the try and again in its handler (line 110), which ends the loop in
\* the outer handler
search_conversations(draw) ==
    IF draw.list_raises \/ \E i \in DOMAIN draw.messages : ~draw.messages[i].id
    THEN <<>>
    ELSE LET parsed == SelectSeq(draw.messages, kept)
         IN  sort_reverse([i \in DOMAIN parsed |->
                              Message(parsed[i].letter, parse_date(parsed[i]))])

\* gmail_client.py lines 81-82
NotAuthenticated(draw) ==
    [pc |-> "raised", error |-> "not authenticated with gmail", history |-> <<draw>>]

(***************************************************************************)
(* Specification of a source followed by the rule-based summary, as in     *)
(* process_contacts (main.py lines 264-267)                                *)
(***************************************************************************)
InitSources ==
    /\ Idle
    /\ call \in DemoDraws \cup LiveDraws

GenerateDummy ==
    /\ call.pc = "source"
    /\ call.source = "demo"
    /\ call' = NewCall(generate_dummy_email_data(call, contact_email, <<"a", "n", "n">>), <<"a",
        "n", "n">>,
                       FALSE, <<call>>)
    /\ UNCHANGED <<jobs, results, files, tasks, uuids, clock, response>>

SearchConversations ==
    /\ call.pc = "source"
    /\ call.source = "live"
    /\ call' = IF ~call.service THEN NotAuthenticated(call)
                ELSE NewCall(search_conversations(call), <<"a", "n", "n">>, FALSE, <<call>>)
    /\ UNCHANGED <<jobs, results, files, tasks, uuids, clock, response>>

NextSources == GenerateDummy \/ SearchConversations \/ Summarize

SpecSources == InitSources /\ [][NextSources]_vars

(***************************************************************************)
(* Specification of one mail search, by a client authenticated or not      *)
(***************************************************************************)
InitSearch ==
    /\ Idle
    /\ call \in LiveDraws \cup UnauthenticatedDraws

NextSearch == SearchConversations

SpecSearch == InitSearch /\ [][NextSearch]_vars

(***************************************************************************)
(* Vocabulary of the claim about the sources                               *)
(***************************************************************************)
FromSource(source) == call.pc # "source" /\ call.history[1].source = source

NewestFirst(conversations) ==
    \A i, j \in DOMAIN conversations :
        i < j => conversations[i].timestamp >= conversations[j].timestamp

LargestTimestamp(conversations) ==
    CHOOSE t \in { conversations[i].timestamp : i \in DOMAIN conversations } :
        \A i \in DOMAIN conversations : conversations[i].timestamp <= t

(***************************************************************************)
(* C20: every list a conversation source returns is sorted by timestamp,   *)
(* newest first (the demo generator returns 2 to 4 messages of distinct    *)
(* archetypes), so the last_contact_date of the rule-based summary is the  *)
(* date of the largest timestamp of the conversation.                      *)
(***************************************************************************)
SourcesReturnNewestFirst ==
    call.pc # "source" =>
        /\ NewestFirst(call.conversations)
        /\ FromSource("demo") =>
              /\ Len(call.conversations) \in 2..4
              /\ \A i, j \in DOMAIN call.conversations :
                    i # j => call.conversations[i].subject # call.conversations[j].subject
        /\ Returned /\ call.conversations # <<>> =>
              Field(<<"l", "a", "s", "t", "_", "c", "o", "n", "t", "a", "c", "t", "_", "d", "a",
                  "t", "e">>) =
                  strftime(LargestTimestamp(call.conversations), "%Y-%m-%d")

\* four demo messages whose newest was not the first one sampled
DemoListReordered ==
    /\ Returned /\ FromSource("demo")
    /\ Len(call.conversations) = 4
    /\ call.conversations[1].subject #
          templates(contact_email, <<"a", "n", "n">>)[call.history[1].selected[1]].subject

(***************************************************************************)
(* Vocabulary of the claim about the failures of the mail search           *)
(***************************************************************************)
Searched == call.pc # "source" /\ call.history[1].source = "live"

\* what the mail service listed for the search that is over
Listing == call.history[1].messages

\* the listed entries that could be fetched and parsed
Readable == { i \in DOMAIN Listing : Listing[i].fetched /\ Listing[i].parsed }

\* the Message of a readable entry: its date, or 0 when the date is unreadable
Expected(i) ==
    Message(Listing[i].letter, IF Listing[i].dated THEN Listing[i].timestamp ELSE 0)

\* the search returned the Messages of the readable entries, each as often
\* as it was listed, and nothing else
ReturnedTheReadable ==
    /\ Len(call.conversations) = Cardinality(Readable)
    /\ \A i \in Readable :
          Cardinality({ j \in DOMAIN call.conversations : call.conversations[j] = Expected(i) })
              = Cardinality({ j \in Readable : Expected(j) = Expected(i) })

SearchOutcomeOk ==
    /\ call.pc # "raised"
    /\ IF call.history[1].list_raises THEN call.conversations = <<>>
       ELSE ReturnedTheReadable

JobFieldsMatchStatus ==
    \A j \in DOMAIN jobs :
        /\ "completed_at" \in DOMAIN jobs[j] <=> jobs[j].status = "complete"
        /\ "error" \in DOMAIN jobs[j] <=> jobs[j].status = "error"

JobFrameStep ==
    \A j \in DOMAIN jobs :
        /\ j \in DOMAIN jobs'
        /\ jobs'[j].total = jobs[j].total
        /\ jobs'[j].started_at = jobs[j].started_at
        /\ jobs[j].status # "processing" => jobs'[j].progress = jobs[j].progress

JobRecordFrame == []JobFieldsMatchStatus /\ [][JobFrameStep]_vars

\* a job that completed after the job before it had ended in error, both
\* looked at afterwards
CompleteAfterErrorPolled ==
    \E j, k \in DOMAIN jobs :
        /\ jobs[j].status = "complete" /\ "completed_at" \in DOMAIN jobs[j]
        /\ jobs[k].status = "error" /\ "error" \in DOMAIN jobs[k]
        /\ jobs[k].started_at < jobs[j].started_at
        /\ jobs[j].progress = jobs[j].total /\ jobs[j].total > 0
        /\ response.op = "status" /\ response.code = 200

====
